---- MODULE Spec2Model ----
(***************************************************************************)
(* Model of examples/protocol-and-state.rs: the stateful fixed-size frame  *)
(* codec (proto::StatefulCodec), the echo server (server::echo), the       *)
(* bounded client loop (client::run) and main's select of the two.         *)
(*                                                                         *)
(* SpecRoundTrip, SpecCodec, SpecAlign drive one codec instance call by    *)
(* call; Spec is main with its own client; SpecLive is Spec without I/O    *)
(* failures and with fair scheduling; SpecServer is the server serving     *)
(* two foreign peers at once.                                              *)
(***************************************************************************)
EXTENDS Integers, Sequences, FiniteSets, TLC

(***************************************************************************)
(* Program constants                                                       *)
(***************************************************************************)
\* decode: `src.len() < 10`, `src.split_to(10)`; encode: `item.resize(10, 0)`
FRAME_SIZE == 10
\* client::run: `connection.codec().sent_counter >= 10`
QUOTA == 10
\* client::send_and_receive: `vec![0, 1, 2, 3]`
ClientPayload == <<0, 1, 2, 3>>

(***************************************************************************)
(* Bounds of the model                                                     *)
(***************************************************************************)
\* longest payload handed to encode (must exceed FRAME_SIZE: truncation)
MaxLen == 11
\* most bytes ever fed to a stand-alone decoder (two frames and a rest)
MaxFeed == 23
\* most encode calls on the stand-alone codec
MaxEnc == 3
\* most bytes arriving in the decode buffer at once
MaxChunk == 12

\* byte values payloads are drawn from (0 is also the padding byte)
PayloadBytes == {0, 7}
Payloads == UNION {[1..n -> PayloadBytes] : n \in 0..MaxLen}
\* a few payloads for the free-running codec: empty, short, exact, oversized
SomePayloads ==
    {<<>>, ClientPayload, [i \in 1..FRAME_SIZE |-> 7], [i \in 1..(FRAME_SIZE + 1) |-> 7]}

(***************************************************************************)
(* proto::StatefulCodec                                                    *)
(***************************************************************************)
\* StatefulCodec::new
StatefulCodecNew == [sent_counter |-> 0, received_counter |-> 0]

None == [some |-> FALSE, data |-> <<>>]
Some(d) == [some |-> TRUE, data |-> d]

\* BytesMut::resize(n, 0): truncate to n bytes or extend with zero bytes
Resize(item, n) == [i \in 1..n |-> IF i <= Len(item) THEN item[i] ELSE 0]

\* BytesMut::split_to(n): the first n bytes; self keeps the rest
SplitHead(buf, n) == SubSeq(buf, 1, n)
SplitRest(buf, n) == SubSeq(buf, n + 1, Len(buf))

\* faulty variants of decode: one counts before looking at the length, one drops
\* the rest of the buffer, one returns the frame without taking it out of the buffer
decodeCountsAlways(codec, src) ==
    IF Len(src) < FRAME_SIZE
    THEN [ok |-> TRUE, codec |-> [codec EXCEPT !.received_counter = @ + 1],
          src |-> src, item |-> None]
    ELSE [ok |-> TRUE, codec |-> [codec EXCEPT !.received_counter = @ + 1],
          src |-> SplitRest(src, FRAME_SIZE),
          item |-> Some(SplitHead(src, FRAME_SIZE))]
decodeDropsRest(codec, src) ==
    IF Len(src) < FRAME_SIZE
    THEN [ok |-> TRUE, codec |-> codec, src |-> src, item |-> None]
    ELSE [ok |-> TRUE, codec |-> [codec EXCEPT !.received_counter = @ + 1],
          src |-> <<>>,
          item |-> Some(SplitHead(src, FRAME_SIZE))]
decodePeeks(codec, src) ==
    IF Len(src) < FRAME_SIZE
    THEN [ok |-> TRUE, codec |-> codec, src |-> src, item |-> None]
    ELSE [ok |-> TRUE, codec |-> [codec EXCEPT !.received_counter = @ + 1],
          src |-> src,
          item |-> Some(SplitHead(src, FRAME_SIZE))]
\* a faulty variant of decode: a buffer of exactly 10 bytes is not yet a frame
decodeOffByOne(codec, src) ==
    IF Len(src) <= FRAME_SIZE
    THEN [ok |-> TRUE, codec |-> codec, src |-> src, item |-> None]
    ELSE [ok |-> TRUE, codec |-> [codec EXCEPT !.received_counter = @ + 1],
          src |-> SplitRest(src, FRAME_SIZE),
          item |-> Some(SplitHead(src, FRAME_SIZE))]
\* Decoder::decode: Ok(None) below 10 bytes, else split off 10 bytes and count
decode(codec, src) ==
    IF Len(src) < FRAME_SIZE
    THEN [ok |-> TRUE, codec |-> codec, src |-> src, item |-> None]
    ELSE [ok |-> TRUE, codec |-> [codec EXCEPT !.received_counter = @ + 1],
          src |-> SplitRest(src, FRAME_SIZE),
          item |-> Some(SplitHead(src, FRAME_SIZE))]

\* a faulty variant of encode: appends the item without resizing it
encodeNoResize(codec, item, dst) ==
    [ok |-> TRUE, codec |-> [codec EXCEPT !.sent_counter = @ + 1], dst |-> dst \o item]
\* Encoder::encode: resize to 10 bytes, append to dst, count; always Ok(())
encode(codec, item, dst) ==
    [ok |-> TRUE, codec |-> [codec EXCEPT !.sent_counter = @ + 1],
     dst |-> dst \o Resize(item, FRAME_SIZE)]

(***************************************************************************)
(* A stand-alone codec instance driven call by call                        *)
(***************************************************************************)
VARIABLES
    hPc,      \* which harness runs and where it is
    hInput,   \* the input drawn for the harness (a payload / a byte sequence)
    hCodec,   \* the codec instance
    hSrc,     \* its decode buffer
    hDst,     \* its outbound buffer
    hOut,     \* what the last call returned
    hFrames,  \* the frames decode has returned so far, in order
    hCalls,   \* number of encode calls that returned Ok, of decode calls that returned a frame
    hBulk     \* a second decoder, fed the whole input at once

hVars == <<hPc, hInput, hCodec, hSrc, hDst, hOut, hFrames, hCalls, hBulk>>

NoCall == [op |-> "none", ok |-> TRUE, item |-> None]
NoCalls == [encodeOk |-> 0, decodeSome |-> 0, fed |-> 0]
NewDecoder == [codec |-> StatefulCodecNew, src |-> <<>>, frames |-> <<>>, fed |-> 0]

\* the i-th byte of the stream fed to the stand-alone decoder
StreamByte(i) == i

HInit(pc, inputs) ==
    /\ hPc = pc
    /\ hInput \in inputs
    /\ hCodec = StatefulCodecNew
    /\ hSrc = <<>>
    /\ hDst = <<>>
    /\ hOut = NoCall
    /\ hFrames = <<>>
    /\ hCalls = NoCalls
    /\ hBulk = NewDecoder


(***************************************************************************)
(* The program: main, server::echo, client::run                            *)
(*                                                                         *)
(* Connections reach the listener from main's own client and from foreign  *)
(* peers (the listener is an ordinary TCP port); a foreign peer writes     *)
(* bytes in any chunks and closes when it likes.                           *)
(* A connection is two byte queues; a read takes what has arrived, a       *)
(* write puts any non-empty part of the pending bytes on the wire.         *)
(***************************************************************************)
\* most bytes a foreign peer writes
MaxPeerBytes == 10

ClientConn == "client"
Peers == {"p", "q"}
Conns == {ClientConn} \cup Peers

\* the i-th byte the foreign peer writes
PeerByte(i) == i

VARIABLES
    listener, \* server::echo's accept loop: "listening", "failed", "dropped"
    select,   \* the future main runs: "running", "ok", "err"
    wire,     \* per connection: the transport
    handler,  \* per connection: the task server::echo spawned for it
    client,   \* client::run
    peer      \* the foreign peers: how many bytes each has written

sVars == <<listener, select, wire, handler, client, peer>>
\* the two other examples of the repository, each with a state of its own
VARIABLES
    rw,       \* read-write-in-parallel.rs: main's server, writer and spawned reader
    inp       \* async-input.rs: the stdin thread, its channel and wait_for_exit

xVars == <<rw, inp>>
vars == <<hVars, sVars, xVars>>

\* read-write-in-parallel.rs before client::run has connected
RwNew ==
    [lst    |-> "listening",  \* server::run's accept loop: listening, failed, dropped
     sel    |-> "running",    \* main's srv.select(client): running, ok, err
     conn   |-> "none",       \* the client's connection: none, pending, accepted
     srv    |-> "none",       \* its echoing task: none, copying, done, failed
     c2s    |-> 0,            \* bytes written by the client and not yet read by copy
     s2c    |-> 0,            \* bytes echoed and not yet read by the client
     closed |-> FALSE,        \* the server's end is closed
     w      |-> "connect",    \* client::run: connect, writing, done, dropped
     n      |-> 0,            \* writes of write_randomly that are complete
     wfail  |-> FALSE,        \* the fold ended on an error
     sends  |-> 0,            \* calls of sender.send(())
     chan   |-> "none",       \* the oneshot channel: none, open, sent, canceled
     r      |-> "none",       \* the task of read_all: none, reading, done
     cause  |-> "none"]       \* why read_all ended: eof, error, stop, canceled

\* async-input.rs before the thread has read anything: `input` is what stdin
\* will deliver, line by line, and `ending` what follows the last line (eof, a
\* read error, or nothing for ever: open)
InNew(input, ending) ==
    [input     |-> input,
     ending    |-> ending,
     pos       |-> 0,          \* lines the thread has read
     thread    |-> "reading",  \* reading, ended (the sender is dropped)
     queue     |-> <<>>,       \* the unbounded channel
     delivered |-> <<>>,       \* what the receiver has yielded, in order
     wait      |-> "pending"]  \* wait_for_exit: pending, exit, terminated, dropped

XIdle == rw = RwNew /\ inp = InNew(<<>>, "open")

\* Framed::new(connection, StatefulCodec::new()): empty buffers, a new codec
FramedNew ==
    [codec |-> StatefulCodecNew, rbuf |-> <<>>, wbuf |-> <<>>,
     readable |-> FALSE, eof |-> FALSE]

NoWire ==
    [st |-> "none", c2s |-> <<>>, s2c |-> <<>>, cClosed |-> FALSE, sClosed |-> FALSE,
     cTx |-> <<>>, sTx |-> <<>>]
NoHandler == [pc |-> "none", f |-> FramedNew, dec |-> <<>>, enc |-> <<>>]

\* a faulty variant of decode_eof: leftover bytes at the end of the stream are dropped
decode_eofDropsRest(codec, src) ==
    LET r == decode(codec, src)
    IN IF r.item.some THEN r ELSE [r EXCEPT !.src = <<>>]
\* Decoder::decode_eof, which StatefulCodec inherits from the trait: decode; when
\* that gives no frame, Ok(None) on an empty buffer and the error "bytes
\* remaining on stream" otherwise
decode_eof(codec, src) ==
    LET r == decode(codec, src)
    IN IF r.item.some \/ Len(src) = 0 THEN r ELSE [r EXCEPT !.ok = FALSE]

\* Framed's Stream::poll on buffered bytes (is_readable): decode, or decode_eof
\* once the transport has reported a zero-byte read; "end" is Ready(None)
FramedNextItem(f) ==
    LET r == IF f.eof THEN decode_eof(f.codec, f.rbuf) ELSE decode(f.codec, f.rbuf)
    IN [f    |-> [f EXCEPT !.codec = r.codec, !.rbuf = r.src,
                           !.readable = (f.eof \/ r.item.some)],
        ok   |-> r.ok,
        item |-> r.item,
        end  |-> f.eof /\ r.ok /\ ~r.item.some]

\* Framed's Sink::start_send: encode the item into the write buffer (the write
\* buffer stays far below the size at which start_send first flushes)
FramedStartSend(f, item) ==
    LET e == encode(f.codec, item, f.wbuf)
    IN [f EXCEPT !.codec = e.codec, !.wbuf = e.dst]

SInit ==
    /\ listener = "listening"
    /\ select = "running"
    /\ wire = [c \in Conns |-> NoWire]
    /\ handler = [c \in Conns |-> NoHandler]
    /\ client = [pc |-> "connect", result |-> "none", fault |-> FALSE, f |-> FramedNew,
                 enc |-> <<>>, dec |-> <<>>]
    /\ peer = [c \in Peers |-> [sent |-> 0]]

HIdle == HInit("idle", {<<>>})

(***************************************************************************)
(* main: srv.select(client)                                                *)
(***************************************************************************)
\* a faulty variant of SelectClientDone: main waits for both futures, so the end
\* of the client neither completes it nor stops the accept loop
SelectWaitsForBoth(res) ==
    /\ select' = select
    /\ listener' = listener
\* the client future completed: select completes and drops the accept loop
SelectClientDone(res) ==
    /\ select' = IF select = "running" THEN res ELSE select
    /\ listener' = IF listener = "listening" THEN "dropped" ELSE listener

(***************************************************************************)
(* server::echo                                                            *)
(***************************************************************************)
\* a faulty variant of EchoItem: the handler answers with the frame's bytes reversed
EchoItemReversed(frame) == [i \in 1..Len(frame) |-> frame[Len(frame) + 1 - i]]
\* `reader.inspect(..)` hands every decoded frame unchanged to `send_all`
EchoItem(frame) == frame

\* a faulty variant of Accept: the handlers are given copies of one codec, so a
\* new handler starts from the counters of a handler that is already there
AcceptCopiesCodec(c) ==
    /\ listener = "listening"
    /\ wire[c].st = "pending"
    /\ wire' = [wire EXCEPT ![c].st = "accepted"]
    /\ \E d \in Conns \ {c} :
            handler' = [handler EXCEPT ![c] = [NoHandler EXCEPT !.pc = "running",
                                                                !.f.codec = handler[d].f.codec]]
    /\ UNCHANGED <<listener, select, client, peer, hVars, xVars>>
\* a faulty variant of Accept: for_each returns the handler's future instead of
\* spawning it, so the next connection waits until the handler before it is over
AcceptAfterHandlers(c) ==
    /\ listener = "listening"
    /\ wire[c].st = "pending"
    /\ \A d \in Conns : handler[d].pc \in {"none", "disconnected", "failed"}
    /\ wire' = [wire EXCEPT ![c].st = "accepted"]
    /\ handler' = [handler EXCEPT ![c] = [NoHandler EXCEPT !.pc = "running"]]
    /\ UNCHANGED <<listener, select, client, peer, hVars, xVars>>
\* incoming().for_each: wrap the connection with a new codec, spawn its handler
Accept(c) ==
    /\ listener = "listening"
    /\ wire[c].st = "pending"
    /\ wire' = [wire EXCEPT ![c].st = "accepted"]
    /\ handler' = [handler EXCEPT ![c] = [NoHandler EXCEPT !.pc = "running"]]
    /\ UNCHANGED <<listener, select, client, peer, hVars, xVars>>

\* a faulty variant of HandlerFailed: a handler's error also ends the accept loop
HandlerFailedEndsAccept(c) ==
    /\ handler' = [handler EXCEPT ![c].pc = "failed"]
    /\ wire' = [wire EXCEPT ![c].sClosed = TRUE]
    /\ listener' = IF listener = "listening" THEN "failed" ELSE listener
    /\ select' = IF select = "running" THEN "err" ELSE select
    /\ UNCHANGED <<client, peer, hVars, xVars>>
\* `.map_err(|err| eprintln!("[server] I/O error ..."))`: the handler's task ends
\* and drops its connection
HandlerFailed(c) ==
    /\ handler' = [handler EXCEPT ![c].pc = "failed"]
    /\ wire' = [wire EXCEPT ![c].sClosed = TRUE]
    /\ UNCHANGED <<listener, select, client, peer, hVars, xVars>>

\* a faulty variant of HandlerItem: every decoded frame is sent back twice
HandlerItemEchoesTwice(c) ==
    /\ handler[c].pc = "running"
    /\ handler[c].f.readable
    /\ LET n == FramedNextItem(handler[c].f)
       IN IF ~n.ok
          THEN HandlerFailed(c)
          ELSE /\ handler' =
                    [handler EXCEPT ![c] =
                        IF n.item.some
                        THEN [@ EXCEPT !.f = FramedStartSend(
                                                 FramedStartSend(n.f, EchoItem(n.item.data)),
                                                 EchoItem(n.item.data)),
                                       !.dec = Append(@, n.item.data),
                                       !.enc = Append(Append(@, EchoItem(n.item.data)),
                                                      EchoItem(n.item.data))]
                        ELSE IF n.end
                        THEN [@ EXCEPT !.f = n.f, !.pc = "closing"]
                        ELSE [@ EXCEPT !.f = n.f]]
               /\ UNCHANGED <<listener, select, wire, client, peer, hVars, xVars>>
\* send_all polls the reader: a decoded frame goes straight to start_send; the end
\* of the stream starts closing the sink; an error ends the handler
HandlerItem(c) ==
    /\ handler[c].pc = "running"
    /\ handler[c].f.readable
    /\ LET n == FramedNextItem(handler[c].f)
       IN IF ~n.ok
          THEN HandlerFailed(c)
          ELSE /\ handler' =
                    [handler EXCEPT ![c] =
                        IF n.item.some
                        THEN [@ EXCEPT !.f = FramedStartSend(n.f, EchoItem(n.item.data)),
                                       !.dec = Append(@, n.item.data),
                                       !.enc = Append(@, EchoItem(n.item.data))]
                        ELSE IF n.end
                        THEN [@ EXCEPT !.f = n.f, !.pc = "closing"]
                        ELSE [@ EXCEPT !.f = n.f]]
               /\ UNCHANGED <<listener, select, wire, client, peer, hVars, xVars>>

\* the reader takes the bytes that have arrived
HandlerRead(c) ==
    /\ handler[c].pc = "running"
    /\ ~handler[c].f.readable
    /\ wire[c].c2s # <<>>
    /\ handler' = [handler EXCEPT ![c].f.rbuf = @ \o wire[c].c2s,
                                  ![c].f.readable = TRUE]
    /\ wire' = [wire EXCEPT ![c].c2s = <<>>]
    /\ UNCHANGED <<listener, select, client, peer, hVars, xVars>>

\* a zero-byte read: the peer has closed and nothing is left to read
HandlerReadEof(c) ==
    /\ handler[c].pc = "running"
    /\ ~handler[c].f.readable
    /\ wire[c].c2s = <<>>
    /\ wire[c].cClosed
    /\ handler' = [handler EXCEPT ![c].f.eof = TRUE, ![c].f.readable = TRUE]
    /\ UNCHANGED <<listener, select, wire, client, peer, hVars, xVars>>

\* the reader is not ready: send_all flushes the write buffer (poll_complete)
HandlerFlush(c, n) ==
    /\ handler[c].pc = "running"
    /\ ~handler[c].f.readable
    /\ wire[c].c2s = <<>>
    /\ ~wire[c].cClosed
    /\ n \in 1..Len(handler[c].f.wbuf)
    /\ wire' = [wire EXCEPT ![c].s2c = @ \o SubSeq(handler[c].f.wbuf, 1, n),
                            ![c].sTx = @ \o SubSeq(handler[c].f.wbuf, 1, n)]
    /\ handler' = [handler EXCEPT ![c].f.wbuf = SubSeq(@, n + 1, Len(@))]
    /\ UNCHANGED <<listener, select, client, peer, hVars, xVars>>

\* the stream has ended: sink.close() writes what is still buffered ...
HandlerCloseFlush(c, n) ==
    /\ handler[c].pc = "closing"
    /\ n \in 1..Len(handler[c].f.wbuf)
    /\ wire' = [wire EXCEPT ![c].s2c = @ \o SubSeq(handler[c].f.wbuf, 1, n),
                            ![c].sTx = @ \o SubSeq(handler[c].f.wbuf, 1, n)]
    /\ handler' = [handler EXCEPT ![c].f.wbuf = SubSeq(@, n + 1, Len(@))]
    /\ UNCHANGED <<listener, select, client, peer, hVars, xVars>>

\* a faulty variant of HandlerDisconnected: the connection is shut down without
\* the buffered replies having been written
HandlerDisconnectedUnflushed(c) ==
    /\ handler[c].pc = "closing"
    /\ handler' = [handler EXCEPT ![c].pc = "disconnected"]
    /\ wire' = [wire EXCEPT ![c].sClosed = TRUE]
    /\ UNCHANGED <<listener, select, client, peer, hVars, xVars>>
\* ... and shuts the connection down: "[server] Client disconnected"
HandlerDisconnected(c) ==
    /\ handler[c].pc = "closing"
    /\ handler[c].f.wbuf = <<>>
    /\ handler' = [handler EXCEPT ![c].pc = "disconnected"]
    /\ wire' = [wire EXCEPT ![c].sClosed = TRUE]
    /\ UNCHANGED <<listener, select, client, peer, hVars, xVars>>

\* a read, a write or the shutdown of the handler's connection fails
HandlerIoError(c) ==
    /\ \/ handler[c].pc = "running" /\ ~handler[c].f.readable
       \/ handler[c].pc = "closing"
    /\ HandlerFailed(c)

\* incoming() yields an error: "[server] I/O error while processing connections";
\* the server future ends, select ends with it and drops the client future
ListenerError ==
    /\ listener = "listening"
    /\ listener' = "failed"
    /\ select' = IF select = "running" THEN "err" ELSE select
    /\ client' = IF client.pc = "done" THEN client ELSE [client EXCEPT !.pc = "dropped"]
    /\ wire' = IF client.pc \in {"connect", "done"}
               THEN wire
               ELSE [wire EXCEPT ![ClientConn].cClosed = TRUE]
    /\ UNCHANGED <<handler, peer, hVars, xVars>>

(***************************************************************************)
(* client::run                                                             *)
(***************************************************************************)
\* the loop is over: the connection is dropped and main's select completes
ClientDone(res, f, fault) ==
    /\ client' = [client EXCEPT !.pc = "done", !.result = res, !.f = f, !.fault = fault]
    /\ wire' = IF wire[ClientConn].st = "none"
               THEN wire
               ELSE [wire EXCEPT ![ClientConn].cClosed = TRUE]
    /\ SelectClientDone(res)
    /\ UNCHANGED <<handler, peer, hVars, xVars>>

\* TcpStream::connect succeeds: the connection waits in the listener's backlog
ClientConnect ==
    /\ client.pc = "connect"
    /\ listener = "listening"
    /\ client' = [client EXCEPT !.pc = "guard"]
    /\ wire' = [wire EXCEPT ![ClientConn].st = "pending"]
    /\ UNCHANGED <<listener, select, handler, peer, hVars, xVars>>

\* TcpStream::connect fails: "[client] Can't connect"
ClientConnectError ==
    /\ client.pc = "connect"
    /\ ClientDone("err", client.f, TRUE)

\* a faulty variant of QuotaReached: the guard is off by one
QuotaReachedLate(codec) == codec.sent_counter > QUOTA
\* `connection.codec().sent_counter >= 10`
QuotaReached(codec) == codec.sent_counter >= QUOTA

\* loop_fn's closure: Break once the quota is reached, else send_and_receive,
\* whose `send` encodes the payload into the write buffer
ClientGuard ==
    /\ client.pc = "guard"
    /\ IF QuotaReached(client.f.codec)
       THEN ClientDone("ok", client.f, FALSE)
       ELSE /\ client' = [client EXCEPT
                              !.pc = "send",
                              !.f = FramedStartSend(@, ClientPayload),
                              !.enc = Append(@, Resize(ClientPayload, FRAME_SIZE))]
            /\ UNCHANGED <<listener, select, wire, handler, peer, hVars, xVars>>

\* a faulty variant of ClientFlush: once the frame is written the loop goes round
\* without waiting for the reply
ClientFlushNoReply(n) ==
    /\ client.pc = "send"
    /\ n \in 1..Len(client.f.wbuf)
    /\ wire' = [wire EXCEPT ![ClientConn].c2s = @ \o SubSeq(client.f.wbuf, 1, n),
                            ![ClientConn].cTx = @ \o SubSeq(client.f.wbuf, 1, n)]
    /\ client' = [client EXCEPT !.f.wbuf = SubSeq(@, n + 1, Len(@)),
                                !.pc = IF n = Len(client.f.wbuf) THEN "guard" ELSE "send"]
    /\ UNCHANGED <<listener, select, handler, peer, hVars, xVars>>
\* `send` flushes the write buffer; once it is empty the reply is awaited
ClientFlush(n) ==
    /\ client.pc = "send"
    /\ n \in 1..Len(client.f.wbuf)
    /\ wire' = [wire EXCEPT ![ClientConn].c2s = @ \o SubSeq(client.f.wbuf, 1, n),
                            ![ClientConn].cTx = @ \o SubSeq(client.f.wbuf, 1, n)]
    /\ client' = [client EXCEPT !.f.wbuf = SubSeq(@, n + 1, Len(@)),
                                !.pc = IF n = Len(client.f.wbuf) THEN "recv" ELSE "send"]
    /\ UNCHANGED <<listener, select, handler, peer, hVars, xVars>>

\* a faulty variant of ResponseBreaks: the end of the stream is taken for an error
ResponseIsError(n) == IF n.end THEN "err" ELSE "continue"
\* `into_future().map(..)`: None is Loop::Break, a frame is Loop::Continue
ResponseBreaks(n) == IF n.end THEN "break" ELSE "continue"

\* into_future polls the stream: a frame, the end of the stream, or an error
ClientItem ==
    /\ client.pc = "recv"
    /\ client.f.readable
    /\ LET n == FramedNextItem(client.f)
       IN IF ~n.ok
          THEN ClientDone("err", n.f, FALSE)
          ELSE IF n.item.some \/ n.end
          THEN IF ResponseBreaks(n) = "break"
               THEN ClientDone("ok", n.f, FALSE)
               ELSE IF ResponseBreaks(n) = "err"
               THEN ClientDone("err", n.f, FALSE)
               ELSE /\ client' = [client EXCEPT !.pc = "guard", !.f = n.f,
                                                !.dec = IF n.item.some
                                                        THEN Append(@, n.item.data)
                                                        ELSE @]
                    /\ UNCHANGED <<listener, select, wire, handler, peer, hVars, xVars>>
          ELSE /\ client' = [client EXCEPT !.f = n.f]
               /\ UNCHANGED <<listener, select, wire, handler, peer, hVars, xVars>>

ClientRead ==
    /\ client.pc = "recv"
    /\ ~client.f.readable
    /\ wire[ClientConn].s2c # <<>>
    /\ client' = [client EXCEPT !.f.rbuf = @ \o wire[ClientConn].s2c,
                                !.f.readable = TRUE]
    /\ wire' = [wire EXCEPT ![ClientConn].s2c = <<>>]
    /\ UNCHANGED <<listener, select, handler, peer, hVars, xVars>>

ClientReadEof ==
    /\ client.pc = "recv"
    /\ ~client.f.readable
    /\ wire[ClientConn].s2c = <<>>
    /\ wire[ClientConn].sClosed
    /\ client' = [client EXCEPT !.f.eof = TRUE, !.f.readable = TRUE]
    /\ UNCHANGED <<listener, select, wire, handler, peer, hVars, xVars>>

\* a faulty variant of ClientIoError: the error is logged and the loop goes round
\* again
ClientIoErrorRetries ==
    /\ \/ client.pc = "send"
       \/ client.pc = "recv" /\ ~client.f.readable
    /\ client' = [client EXCEPT !.pc = "guard", !.result = "err", !.fault = TRUE]
    /\ UNCHANGED <<listener, select, wire, handler, peer, hVars, xVars>>
\* a write or a read of the client fails: `.map_err(|(e, _connection)| e)`, then
\* "[client] I/O error"
ClientIoError ==
    /\ \/ client.pc = "send"
       \/ client.pc = "recv" /\ ~client.f.readable
    /\ ClientDone("err", client.f, TRUE)

(***************************************************************************)
(* The foreign peer                                                        *)
(***************************************************************************)
PeerConnect(c) ==
    /\ wire[c].st = "none"
    /\ listener = "listening"
    /\ wire' = [wire EXCEPT ![c].st = "pending"]
    /\ UNCHANGED <<listener, select, handler, client, peer, hVars, xVars>>

PeerWrite(c, n) ==
    /\ wire[c].st # "none"
    /\ ~wire[c].cClosed
    /\ peer[c].sent + n <= MaxPeerBytes
    /\ LET bytes == [i \in 1..n |-> PeerByte(peer[c].sent + i)]
       IN wire' = [wire EXCEPT ![c].c2s = @ \o bytes, ![c].cTx = @ \o bytes]
    /\ peer' = [peer EXCEPT ![c].sent = @ + n]
    /\ UNCHANGED <<listener, select, handler, client, hVars, xVars>>

PeerClose(c) ==
    /\ wire[c].st # "none"
    /\ ~wire[c].cClosed
    /\ wire' = [wire EXCEPT ![c].cClosed = TRUE]
    /\ UNCHANGED <<listener, select, handler, client, peer, hVars, xVars>>

(***************************************************************************)
(* Specifications                                                          *)
(***************************************************************************)
\* main as it runs: the server, the client and the failures of their I/O
Next ==
    \/ Accept(ClientConn)
    \/ HandlerItem(ClientConn)
    \/ HandlerRead(ClientConn)
    \/ HandlerReadEof(ClientConn)
    \/ \E n \in 1..Len(handler[ClientConn].f.wbuf) : HandlerFlush(ClientConn, n)
    \/ \E n \in 1..Len(handler[ClientConn].f.wbuf) : HandlerCloseFlush(ClientConn, n)
    \/ HandlerDisconnected(ClientConn)
    \/ HandlerIoError(ClientConn)
    \/ ListenerError
    \/ ClientConnect
    \/ ClientConnectError
    \/ ClientGuard
    \/ \E n \in 1..Len(client.f.wbuf) : ClientFlush(n)
    \/ ClientItem
    \/ ClientRead
    \/ ClientReadEof
    \/ ClientIoError

Init == SInit /\ HIdle /\ XIdle
Spec == Init /\ [][Next]_vars

\* the same without failures: no I/O error, and so no handler that closes early
NextNoFault ==
    \/ Accept(ClientConn)
    \/ HandlerItem(ClientConn)
    \/ HandlerRead(ClientConn)
    \/ HandlerReadEof(ClientConn)
    \/ \E n \in 1..Len(handler[ClientConn].f.wbuf) : HandlerFlush(ClientConn, n)
    \/ HandlerDisconnected(ClientConn)
    \/ ClientConnect
    \/ ClientGuard
    \/ \E n \in 1..Len(client.f.wbuf) : ClientFlush(n)
    \/ ClientItem
    \/ ClientRead

\* the runtime polls a task whenever its socket is ready: no enabled step of the
\* accept loop, of a handler or of the client waits for ever
Fairness ==
    /\ WF_vars(Accept(ClientConn))
    /\ WF_vars(HandlerItem(ClientConn))
    /\ WF_vars(HandlerRead(ClientConn))
    /\ WF_vars(HandlerReadEof(ClientConn))
    /\ WF_vars(\E n \in 1..Len(handler[ClientConn].f.wbuf) : HandlerFlush(ClientConn, n))
    /\ WF_vars(HandlerDisconnected(ClientConn))
    /\ WF_vars(ClientConnect)
    /\ WF_vars(ClientGuard)
    /\ WF_vars(\E n \in 1..Len(client.f.wbuf) : ClientFlush(n))
    /\ WF_vars(ClientItem)
    /\ WF_vars(ClientRead)

SpecLive == Init /\ [][NextNoFault]_vars /\ Fairness

\* main with a handler whose own reads and writes do not fail: the client and the
\* listener may still fail at any point, and every task is polled when it can run
NextHandlerHealthy ==
    \/ Accept(ClientConn)
    \/ HandlerItem(ClientConn)
    \/ HandlerRead(ClientConn)
    \/ HandlerReadEof(ClientConn)
    \/ \E n \in 1..Len(handler[ClientConn].f.wbuf) : HandlerFlush(ClientConn, n)
    \/ \E n \in 1..Len(handler[ClientConn].f.wbuf) : HandlerCloseFlush(ClientConn, n)
    \/ HandlerDisconnected(ClientConn)
    \/ ListenerError
    \/ ClientConnect
    \/ ClientConnectError
    \/ ClientGuard
    \/ \E n \in 1..Len(client.f.wbuf) : ClientFlush(n)
    \/ ClientItem
    \/ ClientRead
    \/ ClientIoError

SpecHandlerHealthy ==
    /\ Init /\ [][NextHandlerHealthy]_vars
    /\ Fairness
    /\ WF_vars(\E n \in 1..Len(handler[ClientConn].f.wbuf) : HandlerCloseFlush(ClientConn, n))

\* the server before main's client has connected, serving two foreign peers
NextServer ==
    \/ \E c \in Peers : Accept(c)
    \/ \E c \in Peers : HandlerItem(c)
    \/ \E c \in Peers : HandlerRead(c)
    \/ \E c \in Peers : HandlerReadEof(c)
    \/ \E c \in Peers : \E n \in 1..Len(handler[c].f.wbuf) : HandlerFlush(c, n)
    \/ \E c \in Peers : \E n \in 1..Len(handler[c].f.wbuf) : HandlerCloseFlush(c, n)
    \/ \E c \in Peers : HandlerDisconnected(c)
    \/ \E c \in Peers : HandlerIoError(c)
    \/ ListenerError
    \/ \E c \in Peers : PeerConnect(c)
    \/ \E c \in Peers : \E n \in 1..MaxPeerBytes : PeerWrite(c, n)
    \/ \E c \in Peers : PeerClose(c)

SpecServer == Init /\ [][NextServer]_vars

\* the accept loop next to one handler in any state: peer "p" writes and closes as
\* it likes and its handler may fail, peer "q" only connects; the accept loop is
\* polled whenever a connection is waiting
NextAccept ==
    \/ \E c \in Peers : Accept(c)
    \/ HandlerItem("p")
    \/ HandlerRead("p")
    \/ HandlerReadEof("p")
    \/ \E n \in 1..Len(handler["p"].f.wbuf) : HandlerFlush("p", n)
    \/ \E n \in 1..Len(handler["p"].f.wbuf) : HandlerCloseFlush("p", n)
    \/ HandlerDisconnected("p")
    \/ \E c \in Peers : HandlerIoError(c)
    \/ ListenerError
    \/ \E c \in Peers : PeerConnect(c)
    \/ \E n \in 1..MaxPeerBytes : PeerWrite("p", n)
    \/ PeerClose("p")

SpecAccept == Init /\ [][NextAccept]_vars /\ \A c \in Peers : WF_vars(Accept(c))

(***************************************************************************)
(* The stand-alone codec: round trip, free-running calls, two decoders     *)
(***************************************************************************)
\* Round trip: encode(p) on an empty dst, then decode on the bytes produced
RtEncode ==
    /\ hPc = "rt_start"
    /\ LET r == encode(hCodec, hInput, hDst)
       IN /\ hCodec' = r.codec
          /\ hDst' = r.dst
          /\ hOut' = [op |-> "encode", ok |-> r.ok, item |-> None]
          /\ hCalls' = IF r.ok THEN [hCalls EXCEPT !.encodeOk = @ + 1] ELSE hCalls
    /\ hPc' = "rt_encoded"
    /\ UNCHANGED <<hInput, hSrc, hFrames, hBulk, sVars, xVars>>

RtDecode ==
    /\ hPc = "rt_encoded"
    /\ LET r == decode(hCodec, hDst)
       IN /\ hCodec' = r.codec
          /\ hSrc' = r.src
          /\ hOut' = [op |-> "decode", ok |-> r.ok, item |-> r.item]
          /\ hFrames' = IF r.item.some THEN Append(hFrames, r.item.data) ELSE hFrames
          /\ hCalls' = IF r.item.some THEN [hCalls EXCEPT !.decodeSome = @ + 1] ELSE hCalls
    /\ hDst' = <<>>
    /\ hPc' = "rt_decoded"
    /\ UNCHANGED <<hInput, hBulk, sVars, xVars>>

RtNext == RtEncode \/ RtDecode

InitRoundTrip == HInit("rt_start", Payloads) /\ SInit /\ XIdle
SpecRoundTrip == InitRoundTrip /\ [][RtNext]_vars

\* The codec driven freely: any interleaving of encode calls, decode calls and
\* bytes arriving in the decode buffer
CodecEncode(p) ==
    /\ hPc = "free"
    /\ hCodec.sent_counter < MaxEnc
    /\ LET r == encode(hCodec, p, hDst)
       IN /\ hCodec' = r.codec
          /\ hDst' = r.dst
          /\ hOut' = [op |-> "encode", ok |-> r.ok, item |-> None]
          /\ hCalls' = IF r.ok THEN [hCalls EXCEPT !.encodeOk = @ + 1] ELSE hCalls
    /\ UNCHANGED <<hPc, hInput, hSrc, hFrames, hBulk, sVars, xVars>>

CodecFeed(n) ==
    /\ hPc = "free"
    /\ hCalls.fed + n <= MaxFeed
    /\ hSrc' = hSrc \o [i \in 1..n |-> StreamByte(hCalls.fed + i)]
    /\ hCalls' = [hCalls EXCEPT !.fed = @ + n]
    /\ hOut' = NoCall
    /\ UNCHANGED <<hPc, hInput, hCodec, hDst, hFrames, hBulk, sVars, xVars>>

CodecDecode ==
    /\ hPc = "free"
    /\ LET r == decode(hCodec, hSrc)
       IN /\ hCodec' = r.codec
          /\ hSrc' = r.src
          /\ hOut' = [op |-> "decode", ok |-> r.ok, item |-> r.item]
          /\ hFrames' = IF r.item.some THEN Append(hFrames, r.item.data) ELSE hFrames
          /\ hCalls' = IF r.ok /\ r.item.some
                        THEN [hCalls EXCEPT !.decodeSome = @ + 1] ELSE hCalls
    /\ UNCHANGED <<hPc, hInput, hDst, hBulk, sVars, xVars>>

CodecNext ==
    \/ \E p \in SomePayloads : CodecEncode(p)
    \/ \E n \in 1..MaxChunk : CodecFeed(n)
    \/ CodecDecode

InitCodec == HInit("free", {<<>>}) /\ SInit /\ XIdle
SpecCodec == InitCodec /\ [][CodecNext]_vars

\* Two decoders over the same bytes: one is handed the bytes one at a time,
\* the other all at once; each calls decode until it answers "need more data"
RECURSIVE DecodeUntilNone(_)
DecodeUntilNone(d) ==
    LET r == decode(d.codec, d.src)
    IN IF r.item.some
       THEN DecodeUntilNone([d EXCEPT !.codec = r.codec, !.src = r.src,
                                      !.frames = Append(@, r.item.data)])
       ELSE d

AlignFeedByte ==
    /\ hPc = "align"
    /\ hCalls.fed < Len(hInput)
    /\ LET d == DecodeUntilNone([codec |-> hCodec, src |-> Append(hSrc, hInput[hCalls.fed + 1]),
                                 frames |-> hFrames, fed |-> hCalls.fed + 1])
       IN /\ hCodec' = d.codec
          /\ hSrc' = d.src
          /\ hFrames' = d.frames
          /\ hCalls' = [hCalls EXCEPT !.fed = d.fed,
                                      !.decodeSome = @ + (Len(d.frames) - Len(hFrames))]
    /\ UNCHANGED <<hPc, hInput, hDst, hOut, hBulk, sVars, xVars>>

AlignFeedAll ==
    /\ hPc = "align"
    /\ hBulk.fed < Len(hInput)
    /\ hBulk' = DecodeUntilNone([hBulk EXCEPT !.src = @ \o hInput, !.fed = Len(hInput)])
    /\ UNCHANGED <<hPc, hInput, hCodec, hSrc, hDst, hOut, hFrames, hCalls, sVars, xVars>>

AlignNext == AlignFeedByte \/ AlignFeedAll

ByteStreams == {[i \in 1..n |-> StreamByte(i)] : n \in 0..MaxFeed}
InitAlign == HInit("align", ByteStreams) /\ SInit /\ XIdle
SpecAlign == InitAlign /\ [][AlignNext]_vars

(***************************************************************************)
(* read-write-in-parallel.rs: a writer, a spawned reader and a stop signal *)
(* Bytes are counted, not told apart: the example sends zero bytes.        *)
(***************************************************************************)
\* `.take(10)`
RW_WRITES == 10
\* `vec![0; 200]`: the most one read returns
READ_BUF == 200
\* `rng.gen_range(1, 400)`: the shortest and the longest buffer of a write
RwLens == {1, 399}

Min(a, b) == IF a < b THEN a ELSE b

\* main's select completes with the client future: the accept loop is dropped
RwSelectDone(res) ==
    [rw EXCEPT !.sel = IF @ = "running" THEN res ELSE @,
               !.lst = IF @ = "listening" THEN "dropped" ELSE @]

\* TcpStream::connect succeeds: the socket is split, the channel is made,
\* read_all is spawned and write_randomly starts
RwConnect ==
    /\ rw.w = "connect"
    /\ rw.lst = "listening"
    /\ rw' = [rw EXCEPT !.conn = "pending", !.w = "writing", !.chan = "open",
                        !.r = "reading"]
    /\ UNCHANGED <<hVars, sVars, inp>>

\* "[client] Can't connect": nothing is spawned
RwConnectError ==
    /\ rw.w = "connect"
    /\ rw' = [RwSelectDone("err") EXCEPT !.w = "done"]
    /\ UNCHANGED <<hVars, sVars, inp>>

\* server::run: incoming().for_each spawns copy(reader, writer)
RwAccept ==
    /\ rw.lst = "listening"
    /\ rw.conn = "pending"
    /\ rw' = [rw EXCEPT !.conn = "accepted", !.srv = "copying"]
    /\ UNCHANGED <<hVars, sVars, inp>>

\* "[server] I/O error while accepting connections": the server future ends,
\* select ends with it and drops the client future, and with it the sender
RwListenerError ==
    /\ rw.lst = "listening"
    /\ rw' = [rw EXCEPT !.lst = "failed",
                        !.sel = IF @ = "running" THEN "err" ELSE @,
                        !.w = IF @ = "done" THEN @ ELSE "dropped",
                        !.chan = IF @ = "open" THEN "canceled" ELSE @]
    /\ UNCHANGED <<hVars, sVars, inp>>

\* copy: what has arrived is written back
RwServerCopy ==
    /\ rw.srv = "copying"
    /\ rw.c2s > 0
    /\ rw' = [rw EXCEPT !.s2c = @ + rw.c2s, !.c2s = 0]
    /\ UNCHANGED <<hVars, sVars, inp>>

\* "[server] I/O error while echoing data back to the client": the task ends and
\* its connection is closed
RwServerIoError ==
    /\ rw.srv = "copying"
    /\ rw' = [rw EXCEPT !.srv = "failed", !.closed = TRUE]
    /\ UNCHANGED <<hVars, sVars, inp>>

\* copy reads 0 bytes once both halves of the client's socket are dropped:
\* "[server] Copied .. bytes"
RwServerEof ==
    /\ rw.srv = "copying"
    /\ rw.c2s = 0
    /\ rw.r = "done" /\ rw.w \in {"done", "dropped"}
    /\ rw' = [rw EXCEPT !.srv = "done", !.closed = TRUE]
    /\ UNCHANGED <<hVars, sVars, inp>>

\* one round of the fold: the instant arrives, the buffer is resized to `len`
\* bytes and write_all writes it
RwWrite(len) ==
    /\ rw.w = "writing"
    /\ ~rw.wfail
    /\ rw.n < RW_WRITES
    /\ rw' = [rw EXCEPT !.n = @ + 1, !.c2s = @ + len]
    /\ UNCHANGED <<hVars, sVars, inp>>

\* "[client] I/O error while sending data", or the timer fails: the fold ends
\* with an error
RwWriteError ==
    /\ rw.w = "writing"
    /\ ~rw.wfail
    /\ rw.n < RW_WRITES
    /\ rw' = [rw EXCEPT !.wfail = TRUE]
    /\ UNCHANGED <<hVars, sVars, inp>>

\* a faulty variant of WritesOver: the signal does not wait for the fold
WritesOverAtOnce(s) == TRUE
\* `.take(10).fold(..).then(..)`: the closure of `then` runs when the fold is over,
\* with 10 writes done or with an error
WritesOver(s) == s.n = RW_WRITES \/ s.wfail

\* `sender.send(())`: the signal is stored unless the receiver is gone; the
\* writer is over, and main's select with it
RwSendStop ==
    /\ rw.w = "writing"
    /\ WritesOver(rw)
    /\ rw' = [RwSelectDone(IF rw.r = "reading" THEN "ok" ELSE "err") EXCEPT
                  !.w = "done",
                  !.sends = @ + 1,
                  !.chan = IF rw.r = "reading" THEN "sent" ELSE @]
    /\ UNCHANGED <<hVars, sVars, inp>>

\* read: at most READ_BUF of the bytes that have arrived, then Loop::Continue
RwRead ==
    /\ rw.r = "reading"
    /\ rw.s2c > 0
    /\ rw' = [rw EXCEPT !.s2c = @ - Min(@, READ_BUF)]
    /\ UNCHANGED <<hVars, sVars, inp>>

\* read_all is over: its task ends and drops the receiver
RwReaderDone(cause) ==
    /\ rw' = [rw EXCEPT !.r = "done", !.cause = cause]
    /\ UNCHANGED <<hVars, sVars, inp>>

\* `bytes_read == 0`: Loop::Break
RwReadEof ==
    /\ rw.r = "reading"
    /\ rw.s2c = 0
    /\ rw.closed
    /\ RwReaderDone("eof")

\* "[client] I/O error while reading data"
RwReadError ==
    /\ rw.r = "reading"
    /\ RwReaderDone("error")

\* select2 polls `reading` first; when no byte is left to read it polls the
\* receiver: "[client] Stop reading"
RwReaderStop ==
    /\ rw.r = "reading"
    /\ rw.s2c = 0
    /\ ~rw.closed
    /\ rw.chan = "sent"
    /\ RwReaderDone("stop")

\* the sender was dropped without a send: the receiver yields Canceled
RwReaderCanceled ==
    /\ rw.r = "reading"
    /\ rw.s2c = 0
    /\ ~rw.closed
    /\ rw.chan = "canceled"
    /\ RwReaderDone("canceled")

NextRw ==
    \/ RwConnect
    \/ RwConnectError
    \/ RwAccept
    \/ RwListenerError
    \/ RwServerCopy
    \/ RwServerIoError
    \/ RwServerEof
    \/ \E len \in RwLens : RwWrite(len)
    \/ RwWriteError
    \/ RwSendStop
    \/ RwRead
    \/ RwReadEof
    \/ RwReadError
    \/ RwReaderStop
    \/ RwReaderCanceled

\* the runtime polls the tasks of the writer and of the reader whenever they can
\* make a step
FairnessRw ==
    /\ WF_vars(RwSendStop)
    /\ WF_vars(RwRead)
    /\ WF_vars(RwReadEof)
    /\ WF_vars(RwReaderStop)
    /\ WF_vars(RwReaderCanceled)

SpecRw == Init /\ [][NextRw]_vars /\ FairnessRw

(***************************************************************************)
(* async-input.rs: a thread reads stdin line by line into a channel, and   *)
(* wait_for_exit waits for the line `exit` or for the end of the stream.   *)
(* A line is the sequence of its characters; "SP" is a space and "NL" the  *)
(* line feed that read_line leaves at the end of the line.                 *)
(***************************************************************************)
\* most lines stdin delivers
MaxLines == 3

Whitespace == {"SP", "NL", "TAB", "CR"}

\* lines as read_line returns them: with their line feed ...
FullLines ==
    {<<"e", "x", "i", "t", "NL">>,
     <<"e", "x", "i", "t", "SP", "NL">>,
     <<"SP", "e", "x", "i", "t", "NL">>,
     <<"e", "x", "i", "NL">>,
     <<"e", "x", "i", "t", "SP", "a", "NL">>,
     <<"NL">>}
\* ... or without one, when stdin ends in the middle of a line
LastLines ==
    {<<"e", "x", "i", "t">>,
     <<"e", "x", "i", "t", "SP">>,
     <<"e", "x", "i">>}

\* what stdin delivers: whole lines and then the end of file, a read error or
\* nothing more; or whole lines, an unfinished line and the end of file
StdinRuns ==
    {InNew(ls, e) : ls \in UNION {[1..k -> FullLines] : k \in 0..MaxLines},
                    e \in {"eof", "err", "open"}}
    \cup {InNew(ls \o <<l>>, "eof") :
                    ls \in UNION {[1..k -> FullLines] : k \in 0..(MaxLines - 1)},
                    l \in LastLines}

\* a faulty variant of trim_end: leading whitespace is removed as well
RECURSIVE trim(_)
trim(line) ==
    IF line # <<>> /\ line[Len(line)] \in Whitespace
    THEN trim(SubSeq(line, 1, Len(line) - 1))
    ELSE IF line # <<>> /\ Head(line) \in Whitespace
    THEN trim(Tail(line))
    ELSE line
\* str::trim_end: the line without its trailing whitespace
RECURSIVE trim_end(_)
trim_end(line) ==
    IF line # <<>> /\ line[Len(line)] \in Whitespace
    THEN trim_end(SubSeq(line, 1, Len(line) - 1))
    ELSE line

\* `.filter(|arg| arg.trim_end() == "exit")`
FilterPasses(line) == trim_end(line) = <<"e", "x", "i", "t">>

\* read_line returns a line: it is sent, unless the receiver is gone
InReadLine ==
    /\ inp.thread = "reading"
    /\ inp.pos < Len(inp.input)
    /\ inp' = IF inp.wait = "pending"
              THEN [inp EXCEPT !.pos = @ + 1, !.queue = Append(@, inp.input[inp.pos + 1])]
              ELSE [inp EXCEPT !.pos = @ + 1, !.thread = "ended"]
    /\ UNCHANGED <<hVars, sVars, rw>>

\* read_line fails, or returns an empty buffer (EOF): the loop breaks and the
\* only sender is dropped
InReadEnd ==
    /\ inp.thread = "reading"
    /\ inp.pos = Len(inp.input)
    /\ inp.ending \in {"eof", "err"}
    /\ inp' = [inp EXCEPT !.thread = "ended"]
    /\ UNCHANGED <<hVars, sVars, rw>>

\* into_future polls the filtered receiver: the next line is taken; `exit`
\* completes the future ("Received `exit` command"), any other line is dropped
InPoll ==
    /\ inp.wait = "pending"
    /\ inp.queue # <<>>
    /\ inp' = [inp EXCEPT !.queue = Tail(@),
                          !.delivered = Append(@, Head(inp.queue)),
                          !.wait = IF FilterPasses(Head(inp.queue)) THEN "exit" ELSE @]
    /\ UNCHANGED <<hVars, sVars, rw>>

\* the channel is empty and its sender is gone: the stream ends and the future
\* completes with None ("`stdin` terminated")
InPollEnd ==
    /\ inp.wait = "pending"
    /\ inp.queue = <<>>
    /\ inp.thread = "ended"
    /\ inp' = [inp EXCEPT !.wait = "terminated"]
    /\ UNCHANGED <<hVars, sVars, rw>>

\* "Encountered a timer error": calculation ends, main's select completes and
\* drops wait_for_exit with its receiver
InTimerError ==
    /\ inp.wait = "pending"
    /\ inp' = [inp EXCEPT !.wait = "dropped"]
    /\ UNCHANGED <<hVars, sVars, rw>>

NextInput ==
    \/ InReadLine
    \/ InReadEnd
    \/ InPoll
    \/ InPollEnd
    \/ InTimerError

InitInput == SInit /\ HIdle /\ rw = RwNew /\ inp \in StdinRuns

\* the thread runs, and the runtime polls wait_for_exit when the channel wakes it
FairnessInput ==
    /\ WF_vars(InReadLine)
    /\ WF_vars(InReadEnd)
    /\ WF_vars(InPoll)
    /\ WF_vars(InPollEnd)

SpecInput == InitInput /\ [][NextInput]_vars /\ FairnessInput

(***************************************************************************)
(* Properties of the stand-alone codec                                     *)
(***************************************************************************)
\* p followed by zero bytes up to 10 bytes, or the first 10 bytes of p
PaddedOrTruncated(p) ==
    IF Len(p) <= 10
    THEN p \o [i \in 1..(10 - Len(p)) |-> 0]
    ELSE SubSeq(p, 1, 10)

\* C1: encode(p) on an empty outbound buffer and then decode on the bytes it
\* produced return, without error, exactly one frame of 10 bytes: p followed
\* by zero bytes when len(p) <= 10, the first 10 bytes of p when len(p) > 10.
C1_RoundTrip ==
    hPc = "rt_decoded" =>
        /\ hOut.ok
        /\ hCalls.encodeOk = 1
        /\ hOut.item.some
        /\ Len(hOut.item.data) = 10
        /\ hOut.item.data = PaddedOrTruncated(hInput)
        /\ hFrames = <<PaddedOrTruncated(hInput)>>
        /\ hSrc = <<>>

\* a short payload with a non-zero byte came back padded
C1_Witness ==
    /\ hPc = "rt_decoded"
    /\ hInput = <<0, 7, 7>>
    /\ hOut.item = Some(<<0, 7, 7, 0, 0, 0, 0, 0, 0, 0>>)

\* C2: sent_counter is the number of encode calls that succeeded and
\* received_counter the number of decode calls that returned a frame; neither
\* counter ever decreases; a decode call that returns "need more data" (fewer
\* than 10 bytes buffered) leaves both counters unchanged.
C2_CounterInvariant ==
    /\ [](/\ hCodec.sent_counter = hCalls.encodeOk
          /\ hCodec.received_counter = hCalls.decodeSome)
    /\ [][/\ hCodec'.sent_counter >= hCodec.sent_counter
          /\ hCodec'.received_counter >= hCodec.received_counter
          /\ (CodecDecode /\ Len(hSrc) < 10) =>
                (hOut'.item = None /\ hCodec' = hCodec)
          /\ (hOut'.op = "decode" /\ ~hOut'.item.some) => hCodec' = hCodec]_vars

\* two encodes and two decoded frames, then a decode on a partial frame
C2_Witness ==
    /\ hPc = "free"
    /\ hCalls.encodeOk = 2
    /\ hCalls.decodeSome = 2
    /\ hOut.op = "decode"
    /\ ~hOut.item.some
    /\ Len(hSrc) \in 1..9

AlignDone ==
    /\ hPc = "align"
    /\ hCalls.fed = Len(hInput)
    /\ hBulk.fed = Len(hInput)

\* C3: handing a byte sequence to the decoder one byte at a time and handing
\* it over all at once (decoding until "need more data" each time) give the
\* same frames in the same order, the same received_counter and the same
\* leftover buffer, also for sequences that are no multiple of 10 bytes long.
C3_FrameAlignment ==
    AlignDone =>
        /\ hFrames = hBulk.frames
        /\ hCodec.received_counter = hBulk.codec.received_counter
        /\ hSrc = hBulk.src

\* 23 bytes: two frames and three bytes left over, on both decoders
C3_Witness ==
    /\ AlignDone
    /\ Len(hInput) = 23
    /\ Len(hFrames) = 2
    /\ Len(hBulk.frames) = 2
    /\ Len(hSrc) = 3

(***************************************************************************)
(* Properties of the program                                               *)
(***************************************************************************)
IsPrefix(a, b) == Len(a) <= Len(b) /\ SubSeq(b, 1, Len(a)) = a

RECURSIVE Flatten(_)
Flatten(frames) == IF frames = <<>> THEN <<>> ELSE Head(frames) \o Flatten(Tail(frames))

PaddedClientPayload == <<0, 1, 2, 3, 0, 0, 0, 0, 0, 0>>

\* C4: without early close and without I/O errors client::run eventually is
\* done (Loop::Break), and then it has sent exactly 10 frames and received
\* exactly 10 replies.
C4_Termination ==
    /\ <>(client.pc = "done")
    /\ [](client.pc = "done" =>
            /\ client.result = "ok"
            /\ client.f.codec.sent_counter = 10
            /\ client.f.codec.received_counter = 10
            /\ Len(client.enc) = 10
            /\ Len(client.dec) = 10
            /\ Len(wire[ClientConn].cTx) = 100)

C4_Witness ==
    /\ client.pc = "done"
    /\ client.f.codec.sent_counter = 10
    /\ client.f.codec.received_counter = 10
    /\ select = "ok"

\* the handler of the client's connection ended on an error right after it had
\* written k whole replies
ServerClosedAfter(k) ==
    /\ handler[ClientConn].pc = "failed"
    /\ handler[ClientConn].f.wbuf = <<>>
    /\ Len(handler[ClientConn].enc) = k
    /\ Len(wire[ClientConn].sTx) = k * FRAME_SIZE

\* C5: when the server closes the connection right after replying to the k-th
\* message, k < 10, the client loop ends having sent k or k+1 frames and
\* without an error: the end of the inbound sequence is a Loop::Break.
C5_EarlyClose ==
    \A k \in 0..9 :
        (client.pc = "done" /\ ~client.fault /\ ServerClosedAfter(k)) =>
            /\ client.result = "ok"
            /\ client.f.codec.sent_counter \in {k, k + 1}
            /\ Len(client.enc) \in {k, k + 1}

C5_Witness ==
    /\ client.pc = "done"
    /\ ~client.fault
    /\ ServerClosedAfter(3)
    /\ client.f.eof
    /\ client.result = "ok"
    /\ client.f.codec.sent_counter = 4

\* C6: the guard sent_counter >= 10 is evaluated before every send and ends
\* the loop without sending; so sent_counter never exceeds 10 and the client
\* puts no frame on the wire after its 10th, whatever closes or fails.
C6_QuotaGuard ==
    /\ [](/\ client.f.codec.sent_counter <= 10
          /\ Len(client.enc) <= 10
          /\ Len(wire[ClientConn].cTx) <= 100)
    /\ [][/\ client'.enc # client.enc =>
                (client.pc = "guard" /\ client.f.codec.sent_counter < 10)
          /\ (client.pc = "guard" /\ client.f.codec.sent_counter >= 10
              /\ client' # client) =>
                (/\ client'.pc \in {"done", "dropped"}
                 /\ client'.enc = client.enc
                 /\ client'.f.wbuf = client.f.wbuf
                 /\ wire'[ClientConn].cTx = wire[ClientConn].cTx)]_vars

C6_Witness ==
    /\ client.pc = "done"
    /\ client.result = "ok"
    /\ client.f.codec.sent_counter = 10
    /\ Len(wire[ClientConn].cTx) = 100

\* C7: whatever frame a handler decodes, the frame it writes back on that
\* connection has the same 10 bytes; the client's payload [0,1,2,3] comes back
\* to it as [0,1,2,3,0,0,0,0,0,0].
C7_EchoBytes ==
    /\ \A c \in Conns :
        /\ handler[c].enc = handler[c].dec
        /\ IsPrefix(wire[c].sTx, Flatten(handler[c].dec))
        /\ \A i \in 1..Len(handler[c].dec) : Len(handler[c].dec[i]) = 10
    /\ \A i \in 1..Len(client.dec) : client.dec[i] = PaddedClientPayload

C7_Witness ==
    /\ Len(client.dec) = 2
    /\ client.dec[2] = PaddedClientPayload
    /\ handler[ClientConn].dec[2] = PaddedClientPayload
    /\ SubSeq(wire[ClientConn].sTx, 11, 20) = PaddedClientPayload

PartialAtEof(f) == f.readable /\ f.eof /\ Len(f.rbuf) \in 1..9

\* C9 as claimed: closure in the middle of a frame ends the inbound sequence as
\* "no more frames", not as an error; the partial bytes are discarded and
\* received_counter is not advanced.
C9_MidFrameCloseEndsStream ==
    [][/\ (handler[ClientConn].pc = "running" /\ PartialAtEof(handler[ClientConn].f)
           /\ handler'[ClientConn] # handler[ClientConn]) =>
                (/\ handler'[ClientConn].pc = "closing"
                 /\ handler'[ClientConn].f.codec = handler[ClientConn].f.codec)
       /\ (client.pc = "recv" /\ PartialAtEof(client.f) /\ client'.pc = "done") =>
                (/\ client'.result = "ok"
                 /\ client'.f.codec = client.f.codec)]_vars

\* C9, amended: closure in the middle of a frame ends the inbound sequence
\* with an error (the handler leaves through its I/O-error branch, the client
\* through "[client] I/O error"); the partial bytes are never handed out as a
\* frame and received_counter is not advanced; closure on an empty buffer is
\* what ends the sequence as "no more frames".
C9_MidFrameCloseIsError ==
    [][/\ (handler[ClientConn].pc = "running" /\ PartialAtEof(handler[ClientConn].f)
           /\ handler'[ClientConn] # handler[ClientConn]) =>
                (/\ handler'[ClientConn].pc = "failed"
                 /\ handler'[ClientConn].f.codec = handler[ClientConn].f.codec
                 /\ handler'[ClientConn].dec = handler[ClientConn].dec)
       /\ (client.pc = "recv" /\ PartialAtEof(client.f) /\ client'.pc = "done") =>
                (/\ client'.result = "err"
                 /\ client'.f.codec = client.f.codec
                 /\ client'.dec = client.dec)
       /\ (handler[ClientConn].pc = "running" /\ handler[ClientConn].f.readable
           /\ handler[ClientConn].f.eof /\ handler[ClientConn].f.rbuf = <<>>
           /\ handler'[ClientConn] # handler[ClientConn]) =>
                handler'[ClientConn].pc = "closing"
       /\ (client.pc = "recv" /\ client.f.readable /\ client.f.eof
           /\ client.f.rbuf = <<>> /\ client'.pc = "done") =>
                client'.result = "ok"]_vars

\* the handler read four bytes of a frame, saw the closure, and ended on the
\* error with its counter where it was
C9_Witness ==
    /\ handler[ClientConn].pc = "failed"
    /\ handler[ClientConn].f.readable
    /\ handler[ClientConn].f.eof
    /\ Len(handler[ClientConn].f.rbuf) = 4
    /\ handler[ClientConn].f.codec.received_counter = 1
    /\ Len(handler[ClientConn].dec) = 1

\* C10: an I/O error in one connection's handler ends only that handler: the
\* accept loop neither finishes nor fails, and no other connection's handler,
\* codec, buffers or open/closed status changes.
C10_ErrorIsolation ==
    [][\A c \in Conns :
        (handler[c].pc # "failed" /\ handler'[c].pc = "failed") =>
            /\ listener' = listener
            /\ select' = select
            /\ client' = client
            /\ peer' = peer
            /\ \A d \in Conns \ {c} : handler'[d] = handler[d] /\ wire'[d] = wire[d]]_vars

\* p's handler ended on an error; the accept loop went on, and q was served to
\* its end
C10_Witness ==
    /\ handler["p"].pc = "failed"
    /\ listener = "listening"
    /\ handler["q"].pc = "disconnected"
    /\ Len(wire["q"].sTx) = 10

\* C11: accepting is never blocked by a handler. While the listener is healthy a
\* pending connection can be accepted at once, whatever the handlers of earlier
\* connections are doing (open, waiting, failed), and is eventually accepted;
\* the accept step starts the connection's own handler and touches no other.
C11_AcceptNeverBlocked ==
    /\ [](\A c \in Peers :
            (listener = "listening" /\ wire[c].st = "pending") => ENABLED Accept(c))
    /\ \A c \in Peers :
            (wire[c].st = "pending") ~> (wire[c].st = "accepted" \/ listener # "listening")
    /\ [][\A c \in Peers :
            (wire[c].st = "pending" /\ wire'[c].st = "accepted")
                => /\ handler[c].pc = "none"
                   /\ handler'[c] = [NoHandler EXCEPT !.pc = "running"]
                   /\ \A d \in Conns \ {c} : handler'[d] = handler[d]]_vars

\* a second connection has been accepted while the handler of the first is still
\* open, waiting for the rest of a frame
C11_Witness ==
    /\ handler["q"].pc = "running"
    /\ wire["q"].st = "accepted"
    /\ handler["p"].pc = "running"
    /\ Len(handler["p"].f.rbuf) \in 1..9
\* C12: a client I/O error is fatal and not retried. The step in which a send or
\* a receive fails ends the loop with the error and leaves both counters as
\* they were; from then on the client record (result, counters, frames sent
\* and received) never changes, the client writes no further byte, and its
\* connection is closed and never opened again.
C12_ClientErrorFatal ==
    /\ [][(client.pc \in {"send", "recv"} /\ client'.result = "err")
            => /\ client'.pc = "done"
               /\ client'.f.codec = client.f.codec
               /\ client'.enc = client.enc /\ client'.dec = client.dec]_vars
    /\ [][(client.pc = "done" /\ client.result = "err")
            => /\ client' = client
               /\ wire'[ClientConn].cTx = wire[ClientConn].cTx
               /\ wire'[ClientConn].cClosed = wire[ClientConn].cClosed
               /\ wire'[ClientConn].st = "pending" => wire[ClientConn].st = "pending"]_vars
    /\ [](client.result = "err" => client.pc \in {"done", "dropped"})
    /\ []((client.pc = "done" /\ wire[ClientConn].st # "none") => wire[ClientConn].cClosed)

\* the third send failed half-way: the client is done with an error, 3 frames
\* encoded and 2 received, while the server's handler is still running
C12_Witness ==
    /\ client.pc = "done" /\ client.result = "err" /\ client.fault
    /\ client.f.codec.sent_counter = 3
    /\ client.f.codec.received_counter = 2
    /\ Len(wire[ClientConn].cTx) = 25
    /\ handler[ClientConn].pc = "running"
\* C13: what decode does to the buffer. On fewer than 10 bytes it returns no
\* frame and leaves the buffer as it was; on n >= 10 bytes it returns the first
\* 10 bytes as the frame and leaves exactly the other n - 10 bytes, in order.
C13_DecodeBufferEffect ==
    [][CodecDecode =>
        IF Len(hSrc) < 10
        THEN /\ hOut'.ok /\ ~hOut'.item.some
             /\ hSrc' = hSrc
        ELSE /\ hOut'.ok /\ hOut'.item.some
             /\ hOut'.item.data = [i \in 1..10 |-> hSrc[i]]
             /\ hSrc' = [i \in 1..(Len(hSrc) - 10) |-> hSrc[i + 10]]]_vars

\* 12 bytes have arrived and a decode has returned the first 10 of them: the
\* 11th and the 12th are what the buffer holds
C13_Witness ==
    /\ hPc = "free"
    /\ hCalls.fed = 12
    /\ hOut.op = "decode" /\ hOut.item.some
    /\ hOut.item.data = [i \in 1..10 |-> StreamByte(i)]
    /\ hSrc = <<StreamByte(11), StreamByte(12)>>
\* C14: whenever a connection's adapter waits for more bytes from the transport
\* (its last decode returned no frame, so it is not readable), its decode buffer
\* holds fewer than 10 bytes; this holds for the handler of every connection and
\* for the client.
C14_DecodeBufferBound ==
    /\ \A c \in Conns :
            (handler[c].pc = "running" /\ ~handler[c].f.readable)
                => Len(handler[c].f.rbuf) < 10
    /\ (client.pc = "recv" /\ ~client.f.readable) => Len(client.f.rbuf) < 10

\* the handler waits with 9 bytes of the client's second frame in its buffer
C14_Witness ==
    /\ handler[ClientConn].pc = "running"
    /\ ~handler[ClientConn].f.readable
    /\ Len(handler[ClientConn].f.rbuf) = 9
    /\ handler[ClientConn].f.codec.received_counter = 1
    /\ wire[ClientConn].c2s = <<>>
\* C15: codec state is per connection. The handler of every accepted connection
\* starts from a new adapter with both counters 0 and empty buffers, and so does
\* the client; a step that changes the counters or buffers of one connection's
\* adapter leaves the adapter of every other connection, and the client's, as
\* they were.
C15_CodecPerConnection ==
    /\ [](client.pc = "connect" => client.f = FramedNew)
    /\ [][\A c \in Conns :
            (handler[c].pc = "none" /\ handler'[c].pc # "none")
                => /\ handler'[c].f.codec.sent_counter = 0
                   /\ handler'[c].f.codec.received_counter = 0
                   /\ handler'[c].f.rbuf = <<>> /\ handler'[c].f.wbuf = <<>>]_vars
    /\ [][\A c \in Conns :
            handler'[c].f # handler[c].f
                => /\ \A d \in Conns \ {c} : handler'[d].f = handler[d].f
                   /\ client'.f = client.f]_vars

\* one connection has had a frame decoded and echoed while the other, accepted
\* later, holds 3 bytes and still has both counters at 0
C15_Witness ==
    /\ handler["p"].f.codec = [sent_counter |-> 1, received_counter |-> 1]
    /\ handler["q"].pc = "running"
    /\ handler["q"].f.codec = [sent_counter |-> 0, received_counter |-> 0]
    /\ Len(handler["q"].f.rbuf) = 3
\* C16: once the client is done (Loop::Break) and has closed its connection, the
\* handler eventually reads the end of the inbound stream and ends through
\* "Client disconnected", not through the error branch; whenever a handler has
\* ended through "Client disconnected" the client's side was closed, the end of
\* the stream was read, and every frame the handler received has been written
\* back in full.
C16_HandlerEndsOnDisconnect ==
    /\ (client.pc = "done" /\ client.result = "ok")
            ~> (handler[ClientConn].pc = "disconnected")
    /\ []((client.pc = "done" /\ client.result = "ok")
            => handler[ClientConn].pc # "failed")
    /\ [](handler[ClientConn].pc = "disconnected"
            => /\ wire[ClientConn].cClosed
               /\ handler[ClientConn].f.eof
               /\ handler[ClientConn].f.rbuf = <<>>
               /\ handler[ClientConn].f.wbuf = <<>>
               /\ Len(handler[ClientConn].dec) = handler[ClientConn].f.codec.received_counter
               /\ wire[ClientConn].sTx = Flatten(handler[ClientConn].dec))

\* the client has left after its 10 replies and the handler has ended through
\* "Client disconnected" with 10 frames received and 100 bytes written back
C16_Witness ==
    /\ client.pc = "done" /\ client.result = "ok"
    /\ handler[ClientConn].pc = "disconnected"
    /\ Len(handler[ClientConn].dec) = 10
    /\ Len(wire[ClientConn].sTx) = 100
\* C17: first one wins. In the very step in which the client loop ends (done or
\* failed) main's select completes with the client's result and the accept loop
\* is dropped; the failure of the accept loop completes it as well; while select
\* runs both futures are alive; once it has completed its result stays and no
\* further connection is accepted.
C17_FirstOneWins ==
    /\ [](client.pc = "done"
            => /\ select = client.result
               /\ select \in {"ok", "err"}
               /\ listener = "dropped")
    /\ [](listener = "failed" => (select = "err" /\ client.pc # "done"))
    /\ [](select = "running"
            => (listener = "listening" /\ client.pc \notin {"done", "dropped"}))
    /\ [][select # "running"
            => /\ select' = select
               /\ listener' = listener
               /\ \A c \in Conns : wire[c].st # "accepted" => wire'[c].st # "accepted"]_vars

\* the client got its 10 replies and left: select is complete with Ok and the
\* accept loop is dropped although it never ended and its handler still runs
C17_Witness ==
    /\ client.pc = "done" /\ client.result = "ok"
    /\ client.f.codec.sent_counter = 10
    /\ select = "ok"
    /\ listener = "dropped"
    /\ handler[ClientConn].pc = "running"
\* C20: the client runs in lock-step. In every reachable state its
\* received_counter <= sent_counter <= received_counter + 1: it never has more
\* than one frame without a reply, and it encodes the next frame only after the
\* reply to the one before.
C20_ClientLockStep ==
    /\ client.f.codec.received_counter <= client.f.codec.sent_counter
    /\ client.f.codec.sent_counter <= client.f.codec.received_counter + 1
    /\ Len(client.enc) = client.f.codec.sent_counter
    /\ Len(client.dec) = client.f.codec.received_counter
    /\ client.pc = "guard" => client.f.codec.sent_counter = client.f.codec.received_counter

\* the fifth frame is on its way and four replies have been received
C20_Witness ==
    /\ client.pc = "recv"
    /\ client.f.codec.sent_counter = 5
    /\ client.f.codec.received_counter = 4
    /\ client.f.wbuf = <<>>
\* C18: read_all ends on a read of 0 bytes, on a failed read or on the stop
\* signal, whichever is first (and on nothing else but the loss of the sender);
\* write_randomly calls send at most once, only when its writes are over (10
\* done, or one failed), and has called it exactly once when it is finished,
\* whether the writes succeeded or failed; once the writer has finished the
\* spawned reader eventually ends.
C18_ReaderStops ==
    /\ [](rw.sends <= 1)
    /\ [](rw.sends = 1 => (rw.n = 10 \/ rw.wfail))
    /\ []((rw.w = "done" /\ rw.r # "none") => rw.sends = 1)
    /\ [](rw.w \in {"connect", "writing", "dropped"} => rw.sends = 0)
    /\ [](rw.r = "done"
            => \/ rw.cause = "eof" /\ rw.closed
               \/ rw.cause = "error"
               \/ rw.cause = "stop" /\ rw.sends = 1 /\ rw.w = "done"
               \/ rw.cause = "canceled" /\ rw.sends = 0 /\ rw.w = "dropped")
    /\ (rw.w = "done" /\ rw.r # "none") ~> (rw.r = "done")
    /\ (rw.r = "reading" /\ rw.closed) ~> (rw.r = "done")

\* all 10 writes are done, the signal was sent once and the reader has ended on
\* it, with the server still echoing
C18_Witness ==
    /\ rw.w = "done" /\ rw.n = 10 /\ ~rw.wfail
    /\ rw.sends = 1
    /\ rw.r = "done" /\ rw.cause = "stop"
    /\ rw.srv = "copying"
\* the text of the line without its trailing whitespace is `exit`
IsExitLine(line) ==
    /\ Len(line) >= 4
    /\ line[1] = "e" /\ line[2] = "x" /\ line[3] = "i" /\ line[4] = "t"
    /\ \A i \in 5..Len(line) : line[i] \in {"SP", "NL", "TAB", "CR"}

\* C19: wait_for_exit completes when, and only when, a line that is `exit` up to
\* trailing whitespace has been read, or stdin has ended (end of file or read
\* error). It completes with "exit" exactly on the first such line, with
\* "terminated" only after stdin has ended and every line read was delivered
\* without one of them being `exit`; other lines never complete it; the lines
\* come out of the channel in the order in which they were read; and when
\* such a line has been read or stdin has ended, it eventually completes
\* (unless main's select has dropped it first).
C19_ExitCondition ==
    /\ [](IsPrefix(inp.delivered \o inp.queue, inp.input))
    /\ [](inp.wait = "exit"
            => /\ inp.delivered # <<>>
               /\ IsExitLine(inp.delivered[Len(inp.delivered)])
               /\ \A i \in 1..(Len(inp.delivered) - 1) : ~IsExitLine(inp.delivered[i]))
    /\ [](inp.wait = "terminated"
            => /\ inp.pos = Len(inp.input) /\ inp.ending \in {"eof", "err"}
               /\ inp.delivered = inp.input
               /\ \A i \in 1..Len(inp.input) : ~IsExitLine(inp.input[i]))
    /\ [](inp.wait = "pending"
            => \A i \in 1..Len(inp.delivered) : ~IsExitLine(inp.delivered[i]))
    /\ (\E i \in 1..inp.pos : IsExitLine(inp.input[i])) ~> (inp.wait # "pending")
    /\ (inp.pos = Len(inp.input) /\ inp.ending \in {"eof", "err"})
            ~> (inp.wait # "pending")

\* three lines were read: an empty one, `exit` with a leading space, and `exit`
\* followed by a space; it is the third that completed wait_for_exit
C19_Witness ==
    /\ inp.wait = "exit"
    /\ inp.delivered = << <<"NL">>,
                          <<"SP", "e", "x", "i", "t", "NL">>,
                          <<"e", "x", "i", "t", "SP", "NL">> >>
\* the bytes the handler of connection c has taken off the wire
BytesRead(c) == Len(wire[c].cTx) - Len(wire[c].c2s)

\* C21: the server never echoes what it has not received. In every reachable
\* state and for every connection, the handler's sent_counter is at most its
\* received_counter, and the bytes it has put on the wire are at most the bytes
\* it has read from that connection: what is written or waiting to be written
\* is 10 bytes per frame sent, what was read is 10 bytes per frame received
\* and the undecoded rest.
C21_NoEchoBeforeReceive ==
    \A c \in Conns :
        /\ handler[c].f.codec.sent_counter <= handler[c].f.codec.received_counter
        /\ Len(wire[c].sTx) <= BytesRead(c)
        /\ Len(wire[c].sTx) + Len(handler[c].f.wbuf) = 10 * handler[c].f.codec.sent_counter
        /\ BytesRead(c) = 10 * handler[c].f.codec.received_counter + Len(handler[c].f.rbuf)

\* three frames received and echoed, the third reply half written: 25 bytes
\* written against 30 read
C21_Witness ==
    /\ handler[ClientConn].f.codec.received_counter = 3
    /\ handler[ClientConn].f.codec.sent_counter = 3
    /\ Len(wire[ClientConn].sTx) = 25
    /\ BytesRead(ClientConn) = 30
    /\ Len(handler[ClientConn].f.wbuf) = 5
====
